---- MODULE Spec2Model ----
(***************************************************************************)
(* get_namedtuple (src/getnamedtuple.py): builds a one-off namedtuple from *)
(* keyword arguments or from a key-value collection.                       *)
(*                                                                         *)
(* Strings are sequences of one-character strings, so that identifier      *)
(* validation and the '_%d' fallback names are computed, not assumed.      *)
(* A dict is a set of <<key, value>> pairs with pairwise distinct keys;    *)
(* the order in which the runtime iterates over it is an input of the      *)
(* call.  An OrderedDict is a sequence of <<key, value>> pairs with        *)
(* pairwise distinct keys.                                                 *)
(***************************************************************************)
EXTENDS Integers, Sequences, FiniteSets, TLC

VARIABLES
    namedtuple_has_rename_kwarg, \* module constant computed at import (line 9)
    calls,                       \* the calls made so far: arguments and outcome
    heap,                        \* number of objects (classes, instances) allocated
    stdout                       \* class definitions printed by verbose=True

vars == <<namedtuple_has_rename_kwarg, calls, heap, stdout>>

\* At most MaxFields (name, value) pairs are passed to one call, counting
\* the collection and the keyword arguments together.
MaxFields == 2
\* At most MaxCalls calls are made in one session.
MaxCalls == 2

-----------------------------------------------------------------------------
(* Strings *)

Letters ==
    {"a", "b", "c", "d", "e", "f", "g", "h", "i", "j", "k", "l", "m",
     "n", "o", "p", "q", "r", "s", "t", "u", "v", "w", "x", "y", "z",
     "A", "B", "C", "D", "E", "F", "G", "H", "I", "J", "K", "L", "M",
     "N", "O", "P", "Q", "R", "S", "T", "U", "V", "W", "X", "Y", "Z"}

DigitChars == <<"0", "1", "2", "3", "4", "5", "6", "7", "8", "9">>

Digits == {DigitChars[i] : i \in 1..Len(DigitChars)}

\* str.isalnum() of one character
isalnum(c) == c \in Letters \cup Digits

\* keyword.iskeyword: the reserved words of at most two letters, and 'class'
kwlist ==
    {<<"a", "s">>, <<"i", "f">>, <<"i", "n">>, <<"i", "s">>, <<"o", "r">>,
     <<"c", "l", "a", "s", "s">>}

iskeyword(s) == s \in kwlist

\* '%d' % n, for n >= 0
RECURSIVE PercentD(_)
PercentD(n) ==
    IF n < Len(DigitChars)
    THEN <<DigitChars[n + 1]>>
    ELSE PercentD(n \div Len(DigitChars)) \o <<DigitChars[(n % Len(DigitChars)) + 1]>>

\* '_%d' % index
FallbackName(index) == <<"_">> \o PercentD(index)

\* the default of the _name parameter
AnonymousNamedtuple ==
    <<"A", "n", "o", "n", "y", "m", "o", "u", "s",
      "N", "a", "m", "e", "d", "t", "u", "p", "l", "e">>

-----------------------------------------------------------------------------
(* dicts and OrderedDicts *)

Keys(d) == {p[1] : p \in d}

IsDict(d) == \A p, q \in d : p[1] = q[1] => p = q

\* d[k], for k a key of d
Lookup(d, k) == (CHOOSE p \in d : p[1] = k)[2]

\* the keys of an OrderedDict, in order: kw.keys()
keys(od) == [i \in 1..Len(od) |-> od[i][1]]

\* the orders in which a dict may be iterated
Permutations_(S) ==
    {s \in [1..Cardinality(S) -> S] : \A i, j \in 1..Cardinality(S) : s[i] = s[j] => i = j}

\* OrderedDict.__setitem__: a new key goes last, an existing key keeps its place
SetItem(od, k, v) ==
    IF \E i \in 1..Len(od) : od[i][1] = k
    THEN [i \in 1..Len(od) |-> IF od[i][1] = k THEN <<k, v>> ELSE od[i]]
    ELSE Append(od, <<k, v>>)

RECURSIVE Update(_, _)
\* OrderedDict.update over a sequence of pairs
Update(od, pairs) ==
    IF pairs = <<>> THEN od
    ELSE Update(SetItem(od, Head(pairs)[1], Head(pairs)[2]), Tail(pairs))

\* the items of a dict in the iteration order 'order'
DictItems(d, order) == [i \in 1..Len(order) |-> <<order[i], Lookup(d, order[i])>>]

\* a plausible slip: every pair is appended, duplicates are not merged
OrderedDictKeepingDuplicates(data_arg, order) ==
    IF data_arg.kind = "sequence" THEN data_arg.items
    ELSE DictItems(data_arg.dict, order)

\* a plausible slip: the pairs are taken last to first
OrderedDictReversed(data_arg, order) ==
    LET items == IF data_arg.kind = "sequence" THEN data_arg.items
                 ELSE DictItems(data_arg.dict, order)
    IN Update(<<>>, [i \in 1..Len(items) |-> items[Len(items) + 1 - i]])

\* OrderedDict(_data_arg), line 112
OrderedDict(data_arg, order) ==
    IF data_arg.kind = "sequence"
    THEN Update(<<>>, data_arg.items)
    ELSE Update(<<>>, DictItems(data_arg.dict, order))

-----------------------------------------------------------------------------
(* collections.namedtuple *)

\* all(c.isalnum() or c == '_' for c in name)
IsIdentChars(name) == \A i \in 1..Len(name) : isalnum(name[i]) \/ name[i] = "_"

\* the rename pass: an invalid or repeated name becomes '_<index>'
Renamed(field_names) ==
    [i \in 1..Len(field_names) |->
        LET name == field_names[i] IN
        IF \/ ~IsIdentChars(name)
           \/ iskeyword(name)
           \/ name = <<>>
           \/ name[1] \in Digits
           \/ name[1] = "_"
           \/ \E j \in 1..(i - 1) : field_names[j] = name
        THEN FallbackName(i - 1)
        ELSE name]

\* a plausible slip: the character test is skipped
CheckNameNoCharTest(name) ==
    IF iskeyword(name) THEN "keyword"
    ELSE IF name[1] \in Digits THEN "digit"
    ELSE "ok"

\* first loop of the validation, for one name
CheckName(name) ==
    IF ~IsIdentChars(name) THEN "alnum"
    ELSE IF iskeyword(name) THEN "keyword"
    ELSE IF name[1] \in Digits THEN "digit"
    ELSE "ok"

\* second loop of the validation, for the field at position i
CheckField(field_names, i, rename) ==
    IF field_names[i][1] = "_" /\ ~rename THEN "underscore"
    ELSE IF \E j \in 1..(i - 1) : field_names[j] = field_names[i] THEN "duplicate"
    ELSE "ok"

Min(S) == CHOOSE x \in S : \A y \in S : x <= y

\* the message of the ValueError the validation raises, "ok" if none
Validate(typename, field_names, rename) ==
    LET all == <<typename>> \o field_names
        bad1 == {i \in 1..Len(all) : CheckName(all[i]) # "ok"}
        bad2 == {i \in 1..Len(field_names) : CheckField(field_names, i, rename) # "ok"}
    IN IF bad1 # {} THEN CheckName(all[Min(bad1)])
       ELSE IF bad2 # {} THEN CheckField(field_names, Min(bad2), rename)
       ELSE "ok"

NoClass == [id |-> 0, name |-> <<>>, fields |-> <<>>]

\* a plausible slip: class definitions are memoized by type name and fields
CachedClass(typename, field_names, h, history) ==
    LET same == {i \in 1..Len(history) :
                    /\ history[i].outcome.cls.id # 0
                    /\ history[i].outcome.cls.name = typename
                    /\ history[i].outcome.cls.fields = field_names}
    IN IF same # {} THEN history[Min(same)].outcome.cls
       ELSE [id |-> h + 1, name |-> typename, fields |-> field_names]

\* the class statement executed from the filled-in template: a new class object
NewClass(typename, field_names, h, history) ==
    [id |-> h + 1, name |-> typename, fields |-> field_names]

\* namedtuple(typename, field_names, verbose, rename), with h objects allocated
namedtuple(typename, field_names, verbose, rename, h, history) ==
    LET names == IF rename THEN Renamed(field_names) ELSE field_names
        msg   == Validate(typename, names, rename)
    IN IF msg # "ok"
       THEN [error |-> "ValueError", msg |-> msg, cls |-> NoClass, printed |-> <<>>]
       ELSE [error |-> "", msg |-> "",
             cls |-> NewClass(typename, names, h, history),
             printed |-> IF verbose
                         THEN <<[name |-> typename, fields |-> names]>>
                         ELSE <<>>]

\* a plausible slip: the values are laid out last field first
ValuesReversed(cls, items) ==
    [i \in 1..Len(cls.fields) |->
        (CHOOSE p \in {items[j] : j \in 1..Len(items)} :
            p[1] = cls.fields[Len(cls.fields) + 1 - i])[2]]

\* the argument binding of cls.__new__(**items): the value of field i is the
\* keyword argument named as field i
Values(cls, items) ==
    [i \in 1..Len(cls.fields) |->
        (CHOOSE p \in {items[j] : j \in 1..Len(items)} : p[1] = cls.fields[i])[2]]

\* a plausible slip: an instance equal to an earlier one is handed out again
InternedId(cls, values, h, history) ==
    LET same == {i \in 1..Len(history) :
                    /\ history[i].outcome.status = "returned"
                    /\ history[i].outcome.cls.name = cls.name
                    /\ history[i].outcome.cls.fields = cls.fields
                    /\ history[i].outcome.values = values}
    IN IF same # {} THEN history[Min(same)].outcome.id ELSE h + 1

\* tuple.__new__: a new object
NewId(cls, values, h, history) == h + 1

\* cls(**items), with h objects allocated: TypeError unless the keyword
\* names are exactly the fields of the class
Instantiate(cls, items, h, history) ==
    LET names  == {items[j][1] : j \in 1..Len(items)}
        fields == {cls.fields[i] : i \in 1..Len(cls.fields)}
    IN IF names # fields
       THEN [error |-> "TypeError", values |-> <<>>, id |-> 0]
       ELSE [error |-> "", values |-> Values(cls, items),
             id |-> NewId(cls, Values(cls, items), h, history)]

-----------------------------------------------------------------------------
(* get_namedtuple *)

NoneArg == [kind |-> "None", items |-> <<>>, dict |-> {}]

\* a plausible slip: the collection is tested for emptiness, not for None
BothNonEmpty(data_arg, kw) ==
    /\ data_arg.kind # "None"
    /\ data_arg.items # <<>> \/ data_arg.dict # {}
    /\ kw # {}

\* _data_arg is not None and kw != {}, line 104
BothSupplied(data_arg, kw) == data_arg.kind # "None" /\ kw # {}

\* the named replacement fields of the message template, lines 105-107
msg_fields == {"_data_arg", "kw"}

\* the names .format() receives by keyword, line 107: none, both arguments
\* are passed by position
format_kwargs == {}

\* lines 105-108: str.format raises KeyError for a named field it was not
\* given by keyword; otherwise the ValueError is raised
RaiseBoth ==
    IF msg_fields \subseteq format_kwargs
    THEN [error |-> "ValueError", site |-> "raise"]
    ELSE [error |-> "KeyError", site |-> "format"]

\* a plausible slip: the two options are swapped
NtOptsSwapped(verbose, rename, has_rename) ==
    [verbose |-> IF has_rename THEN rename ELSE FALSE, rename |-> verbose]

\* nt_opts, lines 115-118; without the rename kwarg namedtuple never renames
NtOpts(verbose, rename, has_rename) ==
    [verbose |-> verbose, rename |-> IF has_rename THEN rename ELSE FALSE]

Raised(error, site, msg, cls, printed) ==
    [status |-> "raised", error |-> error, site |-> site, msg |-> msg,
     cls |-> cls, values |-> <<>>, id |-> 0, printed |-> printed]

\* the body of get_namedtuple: the outcome of one call
Body(name, data_arg, verbose, rename, kw, order, has_rename, h, history) ==
    IF BothSupplied(data_arg, kw)
    THEN Raised(RaiseBoth.error, RaiseBoth.site, "both", NoClass, <<>>)
    ELSE
      LET kw112   == IF data_arg.kind # "None"
                     THEN OrderedDict(data_arg, order)
                     ELSE DictItems(kw, order)
          nt_opts == NtOpts(verbose, rename, has_rename)
          nt      == namedtuple(name, keys(kw112), nt_opts.verbose,
                                nt_opts.rename, h, history)
          obj     == Instantiate(nt.cls, kw112, nt.cls.id, history)
      IN IF nt.error # ""
         THEN Raised(nt.error, "namedtuple", nt.msg, NoClass, <<>>)
         ELSE IF obj.error # ""
         THEN Raised(obj.error, "__new__", "", nt.cls, nt.printed)
         ELSE [status |-> "returned", error |-> "", site |-> "", msg |-> "",
               cls |-> nt.cls, values |-> obj.values, id |-> obj.id,
               printed |-> nt.printed]

\* the number of the last object the call allocated
HeapAfter(outcome, h) ==
    IF outcome.id > h THEN outcome.id
    ELSE IF outcome.cls.id > h THEN outcome.cls.id
    ELSE h

\* one call of get_namedtuple
get_namedtuple(name, data_arg, verbose, rename, kw, order) ==
    LET outcome == Body(name, data_arg, verbose, rename, kw, order,
                        namedtuple_has_rename_kwarg, heap, calls)
    IN /\ calls' = Append(calls,
                      [name |-> name, data_arg |-> data_arg, verbose |-> verbose,
                       rename |-> rename, kw |-> kw, order |-> order,
                       outcome |-> outcome])
       /\ heap' = HeapAfter(outcome, heap)
       /\ stdout' = stdout \o outcome.printed
       /\ UNCHANGED namedtuple_has_rename_kwarg

-----------------------------------------------------------------------------
(* the arguments of the calls *)

TypeNames == {AnonymousNamedtuple, <<"P">>, <<"i", "f">>}

FieldNames ==
    {<<"a">>, <<"b">>, <<"a", " ", "b">>, <<"i", "f">>, <<"_", "0">>, <<"_", "1">>}

FieldValues == {1, 2}

Pairs == FieldNames \X FieldValues

SeqsUpTo(S, n) == UNION {[1..k -> S] : k \in 0..n}

DictsUpTo(n) == {d \in SUBSET Pairs : Cardinality(d) <= n /\ IsDict(d)}

DataArgs ==
    {NoneArg}
    \cup {[kind |-> "sequence", items |-> s, dict |-> {}] : s \in SeqsUpTo(Pairs, MaxFields)}
    \cup {[kind |-> "dict", items |-> <<>>, dict |-> d] : d \in DictsUpTo(MaxFields)}

NumPairs(data_arg) == Len(data_arg.items) + Cardinality(data_arg.dict)

\* the iteration orders of the dict the call iterates over, if it does
Orders(data_arg, kw) ==
    IF BothSupplied(data_arg, kw) \/ data_arg.kind = "sequence" THEN {<<>>}
    ELSE IF data_arg.kind = "dict" THEN Permutations_(Keys(data_arg.dict))
    ELSE Permutations_(Keys(kw))

Init ==
    /\ namedtuple_has_rename_kwarg \in BOOLEAN
    /\ calls = <<>>
    /\ heap = 0
    /\ stdout = <<>>

\* a single call in a fresh process, with any arguments
Call ==
    /\ calls = <<>>
    /\ \E data_arg \in DataArgs :
         \E kw \in DictsUpTo(MaxFields - NumPairs(data_arg)) :
           \E order \in Orders(data_arg, kw) :
             \E name \in TypeNames, verbose \in BOOLEAN, rename \in BOOLEAN :
               get_namedtuple(name, data_arg, verbose, rename, kw, order)

Next == Call

Spec == Init /\ [][Next]_vars

-----------------------------------------------------------------------------
(* several calls in one process *)

SeqArg(items) == [kind |-> "sequence", items |-> items, dict |-> {}]

DictArg(d) == [kind |-> "dict", items |-> <<>>, dict |-> d]

\* the collections, keyword arguments and iteration orders of the calls of
\* a session
SessionArgs ==
    {[data_arg |-> NoneArg, kw |-> {<<(<<"a">>), 1>>}, order |-> <<(<<"a">>)>>],
     [data_arg |-> SeqArg(<< <<(<<"a">>), 1>>, <<(<<"b">>), 2>> >>),
      kw |-> {}, order |-> <<>>],
     [data_arg |-> SeqArg(<< <<(<<"b">>), 2>>, <<(<<"a">>), 1>> >>),
      kw |-> {}, order |-> <<>>],
     [data_arg |-> DictArg({<<(<<"a">>), 1>>, <<(<<"b">>), 2>>}),
      kw |-> {}, order |-> <<(<<"a">>), (<<"b">>)>>],
     [data_arg |-> DictArg({<<(<<"a">>), 1>>, <<(<<"b">>), 2>>}),
      kw |-> {}, order |-> <<(<<"b">>), (<<"a">>)>>],
     [data_arg |-> SeqArg(<< <<(<<"a", " ", "b">>), 1>> >>),
      kw |-> {}, order |-> <<>>],
     [data_arg |-> SeqArg(<< <<(<<"a">>), 1>>, <<(<<"a">>), 2>> >>),
      kw |-> {}, order |-> <<>>],
     [data_arg |-> NoneArg, kw |-> {<<(<<"a">>), 1>>, <<(<<"b">>), 2>>},
      order |-> <<(<<"b">>), (<<"a">>)>>],
     [data_arg |-> SeqArg(<< <<(<<"a">>), 1>> >>),
      kw |-> {<<(<<"b">>), 2>>}, order |-> <<>>]}

SessionTypeNames == {AnonymousNamedtuple, <<"P">>}

\* one more call in a process that has made fewer than MaxCalls
SessionCall ==
    /\ Len(calls) < MaxCalls
    /\ \E args \in SessionArgs :
         \E name \in SessionTypeNames, verbose \in BOOLEAN, rename \in BOOLEAN :
           get_namedtuple(name, args.data_arg, verbose, rename, args.kw, args.order)

SessionNext == SessionCall

SessionSpec == Init /\ [][SessionNext]_vars

-----------------------------------------------------------------------------
(* vocabulary of the properties *)

Calls == {calls[i] : i \in 1..Len(calls)}

\* the names and the values of a pair sequence, in order
NamesOf(items) == [j \in 1..Len(items) |-> items[j][1]]

ValuesOf(items) == [j \in 1..Len(items) |-> items[j][2]]

\* the field names a call was given, in any of the three forms
InputNames(c) ==
    {c.data_arg.items[j][1] : j \in 1..Len(c.data_arg.items)}
    \cup Keys(c.data_arg.dict) \cup Keys(c.kw)

\* the value a call was given for name n; for a name given several times in
\* a pair sequence, the value given last
SuppliedValue(c, n) ==
    IF c.data_arg.kind = "sequence"
    THEN LET at == {j \in 1..Len(c.data_arg.items) : c.data_arg.items[j][1] = n}
         IN c.data_arg.items[CHOOSE j \in at : \A k \in at : k <= j][2]
    ELSE IF c.data_arg.kind = "dict" THEN Lookup(c.data_arg.dict, n)
    ELSE Lookup(c.kw, n)

\* a name Python accepts as an identifier: word characters, no leading
\* digit, not a reserved word
IsIdentifier(n) == IsIdentChars(n) /\ n[1] \notin Digits /\ ~iskeyword(n)

\* a name namedtuple accepts as a field name without renaming
IsValidFieldName(n) == IsIdentifier(n) /\ n[1] # "_"

Distinct(names) == \A i, j \in 1..Len(names) : names[i] = names[j] => i = j

\* the positions at which a name occurs for the first time
FirstAt(names) == {i \in 1..Len(names) : \A j \in 1..(i - 1) : names[j] # names[i]}

\* a collection was passed, and it is empty
EmptyCollection(c) ==
    /\ c.data_arg.kind # "None"
    /\ c.data_arg.items = <<>>
    /\ c.data_arg.dict = {}

\* a non-empty collection was passed
NonEmptyCollection(c) == c.data_arg.kind # "None" /\ ~EmptyCollection(c)

\* the call was rejected by the mutual-exclusion check of lines 104-108
RejectedAsBoth(c) ==
    c.outcome.status = "raised" /\ c.outcome.site \in {"format", "raise"}

\* InvalidArgumentError: the ValueError of line 108
InvalidArgumentError(c) ==
    /\ c.outcome.status = "raised"
    /\ c.outcome.error = "ValueError"
    /\ c.outcome.site = "raise"

\* InvalidFieldNameError: the ValueError of namedtuple's name validation
InvalidFieldNameError(c) ==
    /\ c.outcome.status = "raised"
    /\ c.outcome.error = "ValueError"
    /\ c.outcome.site = "namedtuple"

-----------------------------------------------------------------------------
(* C1 *)

\* C1: every call given both a non-empty collection and at least one keyword
\* field value fails with InvalidArgumentError (ValueError), and with no
\* other kind of error.
C1_BothFailsWithInvalidArgumentError ==
    \A c \in Calls :
        NonEmptyCollection(c) /\ c.kw # {} => InvalidArgumentError(c)

-----------------------------------------------------------------------------
(* C2 *)

\* the fields the call resolves, in field order
FieldSet(c) ==
    IF c.data_arg.kind # "None" THEN OrderedDict(c.data_arg, c.order)
    ELSE DictItems(c.kw, c.order)

\* C2: with rename enabled, a call whose field set contains a name that is
\* not a valid identifier succeeds; the invalid name at position i becomes
\* '_i' and the record holds at position i the value given for that name.
C2_RenameReplacesInvalidNames ==
    \A c \in Calls :
        /\ c.rename /\ namedtuple_has_rename_kwarg
        /\ ~BothSupplied(c.data_arg, c.kw)
        /\ IsIdentifier(c.name)
        /\ \E n \in InputNames(c) : ~IsIdentifier(n)
        => /\ c.outcome.status = "returned"
           /\ Len(c.outcome.cls.fields) = Len(FieldSet(c))
           /\ \A i \in 1..Len(FieldSet(c)) :
                /\ ~IsIdentifier(FieldSet(c)[i][1])
                   => c.outcome.cls.fields[i] = FallbackName(i - 1)
                /\ c.outcome.values[i] = FieldSet(c)[i][2]

-----------------------------------------------------------------------------
(* C3 *)

\* C3 as stated: for every call given an ordered pair sequence and no
\* keyword field values, the returned record's fields are the names of the
\* pairs, in order, and position i holds the value of pair i.
C3_FieldsAreThePairs ==
    \A c \in Calls :
        /\ c.data_arg.kind = "sequence" /\ c.kw = {}
        /\ c.outcome.status = "returned"
        => /\ c.outcome.cls.fields = NamesOf(c.data_arg.items)
           /\ c.outcome.values = ValuesOf(c.data_arg.items)

\* C3, amended: the same, for pair sequences whose names are pairwise
\* distinct and, if rename is enabled, all valid field names.
C3_FieldsAreTheDistinctPairs ==
    \A c \in Calls :
        /\ c.data_arg.kind = "sequence" /\ c.kw = {}
        /\ Distinct(NamesOf(c.data_arg.items))
        /\ c.rename => \A n \in InputNames(c) : IsValidFieldName(n)
        /\ c.outcome.status = "returned"
        => /\ c.outcome.cls.fields = NamesOf(c.data_arg.items)
           /\ c.outcome.values = ValuesOf(c.data_arg.items)

C3_Witness ==
    \E c \in Calls :
        /\ c.data_arg.kind = "sequence" /\ c.kw = {}
        /\ Len(c.data_arg.items) >= 2
        /\ Distinct(NamesOf(c.data_arg.items))
        /\ ValuesOf(c.data_arg.items) = <<2, 1>>
        /\ c.rename
        /\ c.outcome.status = "returned"
        /\ c.outcome.cls.fields = NamesOf(c.data_arg.items)
        /\ c.outcome.values = ValuesOf(c.data_arg.items)

-----------------------------------------------------------------------------
(* C4 *)

\* C4: a record returned for valid field names, from any input form, holds
\* at every position the value given for the field name of that position,
\* and has a field for every name given.
C4_RecordHoldsTheSuppliedValues ==
    \A c \in Calls :
        /\ c.outcome.status = "returned"
        /\ \A n \in InputNames(c) : IsValidFieldName(n)
        => /\ Len(c.outcome.values) = Len(c.outcome.cls.fields)
           /\ \A i \in 1..Len(c.outcome.cls.fields) :
                /\ c.outcome.cls.fields[i] \in InputNames(c)
                /\ c.outcome.values[i] = SuppliedValue(c, c.outcome.cls.fields[i])
           /\ \A n \in InputNames(c) :
                \E i \in 1..Len(c.outcome.cls.fields) : c.outcome.cls.fields[i] = n

C4_Witness ==
    \E c \in Calls :
        /\ c.data_arg.kind = "None"
        /\ Cardinality(c.kw) >= 2
        /\ \E p, q \in c.kw : p[2] # q[2]
        /\ \A n \in InputNames(c) : IsValidFieldName(n)
        /\ c.outcome.status = "returned"
        /\ \A i \in 1..Len(c.outcome.cls.fields) :
             c.outcome.values[i] = Lookup(c.kw, c.outcome.cls.fields[i])

-----------------------------------------------------------------------------
(* C5 *)

\* C5: with rename disabled, every call whose field set contains a name that
\* is not a valid identifier fails with InvalidFieldNameError, whichever
\* input form supplied the name.
C5_InvalidNameFails ==
    \A c \in Calls :
        /\ ~c.rename
        /\ ~BothSupplied(c.data_arg, c.kw)
        /\ \E n \in InputNames(c) : ~IsIdentifier(n)
        => InvalidFieldNameError(c)

C5_Witness ==
    \E c \in Calls :
        /\ ~c.rename
        /\ c.data_arg.kind = "None"
        /\ \E n \in Keys(c.kw) : ~IsIdentChars(n)
        /\ \E n \in Keys(c.kw) : IsValidFieldName(n)
        /\ IsIdentifier(c.name)
        /\ InvalidFieldNameError(c)

-----------------------------------------------------------------------------
(* C9 *)

\* C9 as stated: with rename disabled, a call given a pair sequence in which
\* a name occurs at two positions fails with InvalidFieldNameError.
C9_DuplicateNameFails ==
    \A c \in Calls :
        /\ ~c.rename
        /\ c.data_arg.kind = "sequence" /\ c.kw = {}
        /\ ~Distinct(NamesOf(c.data_arg.items))
        => InvalidFieldNameError(c)

\* C9, amended: with rename disabled, a call given a pair sequence in which
\* a name occurs at two positions returns a record when the type name and
\* all the names are valid, and fails with InvalidFieldNameError otherwise;
\* the record has one field per distinct name, in the order of the first
\* occurrences, holding the value given last for the name.
C9_DuplicateNamesAreMerged ==
    \A c \in Calls :
        /\ ~c.rename
        /\ c.data_arg.kind = "sequence" /\ c.kw = {}
        /\ ~Distinct(NamesOf(c.data_arg.items))
        => LET names == NamesOf(c.data_arg.items)
               first == FirstAt(names)
           IN IF IsIdentifier(c.name) /\ \A n \in InputNames(c) : IsValidFieldName(n)
              THEN /\ c.outcome.status = "returned"
                   /\ Len(c.outcome.cls.fields) = Cardinality(first)
                   /\ \A i \in first :
                        LET k == Cardinality({j \in first : j <= i})
                        IN /\ c.outcome.cls.fields[k] = names[i]
                           /\ c.outcome.values[k] = SuppliedValue(c, names[i])
              ELSE InvalidFieldNameError(c)

C9_Witness ==
    \E c \in Calls :
        /\ ~c.rename
        /\ c.data_arg.kind = "sequence" /\ c.kw = {}
        /\ NamesOf(c.data_arg.items) = <<(<<"a">>), (<<"a">>)>>
        /\ ValuesOf(c.data_arg.items) = <<1, 2>>
        /\ c.outcome.status = "returned"
        /\ c.outcome.cls.fields = <<(<<"a">>)>>
        /\ c.outcome.values = <<2>>

-----------------------------------------------------------------------------
(* C10 *)

\* C10 as stated: a call given an empty collection, not an absent one,
\* together with keyword field values is not rejected by the
\* mutual-exclusion check.
C10_EmptyCollectionIsNotRejected ==
    \A c \in Calls :
        EmptyCollection(c) /\ c.kw # {} => ~RejectedAsBoth(c)

\* C10, amended: the mutual-exclusion check depends on the collection being
\* passed, not on its being non-empty: a call given an empty collection
\* together with keyword field values is rejected by the check and returns
\* no record.
C10_EmptyCollectionIsRejected ==
    \A c \in Calls :
        EmptyCollection(c) /\ c.kw # {}
        => RejectedAsBoth(c) /\ c.outcome.cls = NoClass

C10_Witness ==
    \E c \in Calls :
        /\ c.data_arg.kind = "dict" /\ c.data_arg.dict = {}
        /\ Cardinality(c.kw) >= 2
        /\ \A n \in Keys(c.kw) : IsValidFieldName(n)
        /\ IsIdentifier(c.name)
        /\ RejectedAsBoth(c)

-----------------------------------------------------------------------------
(* C6, C7, C8: pairs of calls of one session *)

CallPairs == {ij \in (1..Len(calls)) \X (1..Len(calls)) : ij[1] # ij[2]}

Set(s) == {s[i] : i \in 1..Len(s)}

\* C6 as stated: two successful calls given the same set of field names
\* return distinct instances with the same field-name sequence.
C6_SameFieldSequence ==
    \A ij \in CallPairs :
        LET c == calls[ij[1]]
            d == calls[ij[2]]
        IN /\ c.outcome.status = "returned" /\ d.outcome.status = "returned"
           /\ InputNames(c) = InputNames(d)
           => /\ c.outcome.cls.fields = d.outcome.cls.fields
              /\ c.outcome.id # d.outcome.id

\* C6, amended: two successful calls given the same set of field names
\* return distinct instances whose field-name sequences hold the same names,
\* each once; the sequences are equal when the two calls were given the
\* names as the same ordered sequence of pairs' names.
C6_SameFieldNames ==
    \A ij \in CallPairs :
        LET c == calls[ij[1]]
            d == calls[ij[2]]
        IN /\ c.outcome.status = "returned" /\ d.outcome.status = "returned"
           /\ InputNames(c) = InputNames(d)
           => /\ Set(c.outcome.cls.fields) = Set(d.outcome.cls.fields)
              /\ Len(c.outcome.cls.fields) = Len(d.outcome.cls.fields)
              /\ Distinct(c.outcome.cls.fields)
              /\ c.outcome.id # d.outcome.id
              /\ c.outcome.id # 0
              /\ /\ c.data_arg.kind = "sequence" /\ d.data_arg.kind = "sequence"
                 /\ NamesOf(c.data_arg.items) = NamesOf(d.data_arg.items)
                 => c.outcome.cls.fields = d.outcome.cls.fields

C6_Witness ==
    \E ij \in CallPairs :
        LET c == calls[ij[1]]
            d == calls[ij[2]]
        IN /\ c.outcome.status = "returned" /\ d.outcome.status = "returned"
           /\ c.data_arg = d.data_arg /\ c.kw = d.kw /\ c.order = d.order
           /\ c.name = d.name /\ c.verbose = d.verbose /\ c.rename = d.rename
           /\ Cardinality(InputNames(c)) >= 2
           /\ c.outcome.cls.fields = d.outcome.cls.fields
           /\ c.outcome.values = d.outcome.values
           /\ c.outcome.id # d.outcome.id

\* C7: every successful call constructs a new record type: the types of the
\* instances returned by two separate calls are never the same type, even
\* for the same type name and the same field names.
C7_EveryCallANewType ==
    \A ij \in CallPairs :
        LET c == calls[ij[1]]
            d == calls[ij[2]]
        IN c.outcome.status = "returned" /\ d.outcome.status = "returned"
           => /\ c.outcome.cls.id # d.outcome.cls.id
              /\ c.outcome.cls.id # 0

C7_Witness ==
    \E ij \in CallPairs :
        LET c == calls[ij[1]]
            d == calls[ij[2]]
        IN /\ c.outcome.status = "returned" /\ d.outcome.status = "returned"
           /\ c.name = AnonymousNamedtuple /\ d.name = AnonymousNamedtuple
           /\ c.outcome.cls.name = d.outcome.cls.name
           /\ c.outcome.cls.fields = d.outcome.cls.fields
           /\ c.outcome.cls.fields # <<>>
           /\ c.outcome.cls.id # d.outcome.cls.id

\* two calls with the same arguments but for _verbose
DifferInVerboseOnly(c, d) ==
    /\ c.verbose # d.verbose
    /\ c.name = d.name /\ c.rename = d.rename
    /\ c.data_arg = d.data_arg /\ c.kw = d.kw /\ c.order = d.order

\* C8: the verbose flag does not change the outcome: two calls that differ
\* in _verbose only either fail with the same error or return records with
\* the same type name, field names and values.
C8_VerboseDoesNotChangeTheOutcome ==
    \A ij \in CallPairs :
        LET c == calls[ij[1]]
            d == calls[ij[2]]
        IN DifferInVerboseOnly(c, d)
           => /\ c.outcome.status = d.outcome.status
              /\ c.outcome.error = d.outcome.error
              /\ c.outcome.site = d.outcome.site
              /\ c.outcome.msg = d.outcome.msg
              /\ c.outcome.status = "returned"
                 => /\ c.outcome.cls.name = d.outcome.cls.name
                    /\ c.outcome.cls.fields = d.outcome.cls.fields
                    /\ c.outcome.values = d.outcome.values

C8_Witness ==
    \E ij \in CallPairs :
        LET c == calls[ij[1]]
            d == calls[ij[2]]
        IN /\ DifferInVerboseOnly(c, d)
           /\ c.verbose /\ c.outcome.printed # <<>> /\ d.outcome.printed = <<>>
           /\ stdout # <<>>
           /\ c.outcome.status = "returned" /\ d.outcome.status = "returned"
           /\ Len(c.outcome.values) >= 2
           /\ c.outcome.values = d.outcome.values
====
